---- MODULE Spec2Model ----
(***************************************************************************)
(* Model of src/src/transform_fhir.py: the two-pass re-keying of a FHIR    *)
(* Bundle (transform_bundle) and its helpers.                              *)
(*                                                                         *)
(* Strings are sequences of one-character strings, so that strip(),        *)
(* re.sub() and REF_RE.match() are computed character by character.        *)
(* A JSON value that may be missing is a record [t |-> tag, s |-> chars].  *)
(***************************************************************************)
EXTENDS Integers, Sequences, FiniteSets, TLC

\* ------------------------------------------------------------- bounds
MaxEntries == 2      \* entries in the input Bundle
MaxIdentLen == 2     \* elements of the identifier list add_identifier is first given
MaxAugCalls == 3     \* repeated calls of add_identifier on one record

\* ------------------------------------------------------------- characters
Lower == {"a","b","c","d","e","f","g","h","i","j","k","l","m",
          "n","o","p","q","r","s","t","u","v","w","x","y","z"}
Upper == {"A","B","C","D","E","F","G","H","I","J","K","L","M",
          "N","O","P","Q","R","S","T","U","V","W","X","Y","Z"}
Digit == {"0","1","2","3","4","5","6","7","8","9"}
Alpha == Lower \cup Upper
\* \s of re and the default character set of str.strip()
Whitespace == {" ", "\t", "\n", "\r", "\f"}
\* the argument of .strip('"\'')
QuoteChars == {"\"", "'"}
\* [A-Za-z0-9\-\.]
IdChars == Alpha \cup Digit \cup {"-", "."}
\* {1,64} in FHIR_ID_RE / REF_RE
MaxIdLen == 64

URN_SYSTEM == <<"u","r","n",":","i","e","t","f",":","r","f","c",":","3","9","8","6">>
URN_PREFIX == <<"u","r","n",":","u","u","i","d",":">>

\* ------------------------------------------------------------- string helpers
StartsWith(s, p) == Len(s) >= Len(p) /\ SubSeq(s, 1, Len(p)) = p

RECURSIVE LStrip(_, _)
LStrip(s, chars) ==
    IF s # <<>> /\ Head(s) \in chars THEN LStrip(Tail(s), chars) ELSE s

RECURSIVE RStrip(_, _)
RStrip(s, chars) ==
    IF s # <<>> /\ s[Len(s)] \in chars THEN RStrip(SubSeq(s, 1, Len(s) - 1), chars) ELSE s

\* str.strip(chars)
Strip(s, chars) == LStrip(RStrip(s, chars), chars)

\* re.sub(r"\s+", "-", s): every maximal run of whitespace becomes one "-"
RECURSIVE SubWhitespace(_)
SubWhitespace(s) ==
    IF s = <<>> THEN <<>>
    ELSE IF Head(s) \in Whitespace
         THEN <<"-">> \o SubWhitespace(LStrip(s, Whitespace))
         ELSE <<Head(s)>> \o SubWhitespace(Tail(s))

\* s.split(sep) for a one-character separator
RECURSIVE Split(_, _)
Split(s, sep) ==
    IF \A k \in 1..Len(s) : s[k] # sep THEN <<s>>
    ELSE LET k == CHOOSE j \in 1..Len(s) : s[j] = sep /\ \A m \in 1..(j - 1) : s[m] # sep
         IN  <<SubSeq(s, 1, k - 1)>> \o Split(SubSeq(s, k + 1, Len(s)), sep)

AllIn(s, chars) == \A k \in 1..Len(s) : s[k] \in chars

\* ------------------------------------------------------------- pure functions
\* to_urn
to_urn(u) == URN_PREFIX \o u

\* ([A-Za-z][A-Za-z0-9]+)
IsKindToken(s) ==
    /\ Len(s) >= 2
    /\ s[1] \in Alpha
    /\ AllIn(s, Alpha \cup Digit)

\* ([A-Za-z0-9\-\.]{1,64})
IsIdToken(s) ==
    /\ Len(s) >= 1
    /\ Len(s) <= MaxIdLen
    /\ AllIn(s, IdChars)

NoMatch == [ok |-> FALSE, kind |-> <<>>, id |-> <<>>]

\* REF_RE matched against the whole of s (the anchors ^ and $, $ read strictly)
RefReExact(s) ==
    LET parts == Split(s, "/")
        n     == Len(parts)
    IN  IF n = 2 /\ IsKindToken(parts[1]) /\ IsIdToken(parts[2])
        THEN [ok |-> TRUE, kind |-> parts[1], id |-> parts[2]]
        ELSE IF /\ n = 6
                /\ parts[1] \in {<<"h","t","t","p",":">>, <<"h","t","t","p","s",":">>}
                /\ parts[2] = <<>>
                /\ parts[3] # <<>>
                /\ parts[4] # <<>>
                /\ IsKindToken(parts[5])
                /\ IsIdToken(parts[6])
             THEN [ok |-> TRUE, kind |-> parts[5], id |-> parts[6]]
             ELSE NoMatch

\* REF_RE.match(s): Python's $ also matches just before one trailing newline
REF_RE(s) ==
    IF RefReExact(s).ok THEN RefReExact(s)
    ELSE IF s # <<>> /\ s[Len(s)] = "\n" THEN RefReExact(SubSeq(s, 1, Len(s) - 1))
         ELSE NoMatch

\* s.join(parts) for a one-character separator
RECURSIVE Join(_, _)
Join(parts, sep) ==
    IF Len(parts) = 0 THEN <<>>
    ELSE IF Len(parts) = 1 THEN parts[1]
         ELSE parts[1] \o <<sep>> \o Join(Tail(parts), sep)

\* sanitize_ref_string, were it to drop the whitespace around each "/" before
\* collapsing the rest
sanitize_ref_string_trim_segments(s) ==
    LET s2    == Strip(Strip(s, Whitespace), QuoteChars)
        parts == Split(s2, "/")
    IN  IF StartsWith(s2, URN_PREFIX) \/ StartsWith(s2, <<"#">>)
        THEN s2
        ELSE SubWhitespace(Join([k \in 1..Len(parts) |-> Strip(parts[k], Whitespace)], "/"))

\* sanitize_ref_string
sanitize_ref_string(s) ==
    LET s2 == Strip(Strip(s, Whitespace), QuoteChars)
    IN  IF StartsWith(s2, URN_PREFIX) \/ StartsWith(s2, <<"#">>)
        THEN s2
        ELSE SubWhitespace(s2)


\* ------------------------------------------------------------- JSON values
\* a string-valued field, or a field that is missing (dict.get(...) is None)
Str(s) == [t |-> "str", s |-> s]
Absent == [t |-> "absent", s |-> <<>>]

\* an element of an identifier list: {"system": ..., "value": ...}
Ident(sys, val) == [system |-> sys, value |-> val]

\* the identifier field: missing, one object, a list of objects, anything else
IdAbsent == [t |-> "absent", v |-> <<>>]
IdDict(d) == [t |-> "dict", v |-> <<d>>]
IdList(l) == [t |-> "list", v |-> l]
IdOther == [t |-> "other", v |-> <<>>]

\* dict put: m[k] = v
Put(m, k, v) == [x \in (DOMAIN m) \cup {k} |-> IF x = k THEN v ELSE m[x]]
EmptyMap == <<>>

\* gen_uuid: the n-th value returned in a run; distinct calls give distinct values
DigitOf == <<"1","2","3","4","5","6","7","8","9">>
gen_uuid(n) == <<"u", DigitOf[n]>>

\* ------------------------------------------------------------- add_identifier
HasUrnIdent(l, urn_value) ==
    \E k \in 1..Len(l) : l[k].system = URN_SYSTEM /\ l[k].value = urn_value

\* add_identifier, were the duplicate guard to compare the system alone
add_identifier_field_system_only(identifier, urn_value) ==
    LET ident == Ident(URN_SYSTEM, urn_value)
    IN  IF identifier.t # "absent"
        THEN IF identifier.t = "list"
             THEN IF ~(\E k \in 1..Len(identifier.v) : identifier.v[k].system = URN_SYSTEM)
                  THEN IdList(Append(identifier.v, ident))
                  ELSE identifier
             ELSE IF identifier.t = "dict"
                  THEN IdList(<<identifier.v[1], ident>>)
                  ELSE IdList(<<ident>>)
        ELSE IdList(<<ident>>)

\* add_identifier, were it to append without looking for a duplicate
add_identifier_field_always_append(identifier, urn_value) ==
    LET ident == Ident(URN_SYSTEM, urn_value)
    IN  IF identifier.t = "list"
        THEN IdList(Append(identifier.v, ident))
        ELSE IF identifier.t = "dict"
             THEN IdList(<<identifier.v[1], ident>>)
             ELSE IdList(<<ident>>)

\* the new value of resource["identifier"]
add_identifier_field(identifier, urn_value) ==
    LET ident == Ident(URN_SYSTEM, urn_value)
    IN  IF identifier.t # "absent"
        THEN IF identifier.t = "list"
             THEN IF ~HasUrnIdent(identifier.v, urn_value)
                  THEN IdList(Append(identifier.v, ident))
                  ELSE identifier
             ELSE IF identifier.t = "dict"
                  THEN IdList(<<identifier.v[1], ident>>)
                  ELSE IdList(<<ident>>)
        ELSE IdList(<<ident>>)

add_identifier(resource, urn_value) ==
    [resource EXCEPT !.identifier = add_identifier_field(resource.identifier, urn_value)]

\* ------------------------------------------------------------- map_reference
\* Str(urn) for a mapping, Absent for None
map_reference(ref, by_fullurl_, by_typeid_str_) ==
    LET candidate == sanitize_ref_string(ref)
        m         == REF_RE(candidate)
        key       == m.kind \o <<"/">> \o m.id
    IN  IF StartsWith(candidate, URN_PREFIX) \/ StartsWith(candidate, <<"#">>)
        THEN Str(candidate)
        ELSE IF candidate \in DOMAIN by_fullurl_
             THEN Str(by_fullurl_[candidate])
             ELSE IF m.ok /\ key \in DOMAIN by_typeid_str_
                  THEN Str(by_typeid_str_[key])
                  ELSE Absent

\* ------------------------------------------------------------- rewrite_references
\* the value left under a key "reference"
rewrite_value(v, by_fullurl_, by_typeid_str_) ==
    IF v.t = "str"
    THEN LET mapped == map_reference(v.s, by_fullurl_, by_typeid_str_)
         IN  IF mapped.t = "str" THEN mapped ELSE v
    ELSE v

\* the unknown set, were only references that fail REF_RE to be tracked
unknown_of_unparsed_only(v, by_fullurl_, by_typeid_str_) ==
    IF /\ v.t = "str"
       /\ map_reference(v.s, by_fullurl_, by_typeid_str_).t # "str"
       /\ ~REF_RE(sanitize_ref_string(v.s)).ok
       /\ ~StartsWith(v.s, URN_PREFIX)
       /\ ~StartsWith(v.s, <<"#">>)
    THEN {v.s}
    ELSE {}

\* what the visit of a key "reference" adds to the unknown set
unknown_of(v, by_fullurl_, by_typeid_str_) ==
    IF /\ v.t = "str"
       /\ map_reference(v.s, by_fullurl_, by_typeid_str_).t # "str"
       /\ ~StartsWith(v.s, URN_PREFIX)
       /\ ~StartsWith(v.s, <<"#">>)
    THEN {v.s}
    ELSE {}

\* rewrite_references(res, ...) on a record: its only reference-tagged field is
\* subject.reference; every other field is visited and left alone
rewrite_resource(res, by_fullurl_, by_typeid_str_) ==
    [res EXCEPT !.subject = rewrite_value(res.subject, by_fullurl_, by_typeid_str_)]

unknown_resource(res, by_fullurl_, by_typeid_str_) ==
    unknown_of(res.subject, by_fullurl_, by_typeid_str_)

\* rewrite_references(bundle, ...): the whole container, entries included
rewrite_bundle(b, by_fullurl_, by_typeid_str_) ==
    [b EXCEPT
       !.who = rewrite_value(b.who, by_fullurl_, by_typeid_str_),
       !.entry = [k \in 1..Len(b.entry) |->
                    IF b.entry[k].has_resource
                    THEN [b.entry[k] EXCEPT !.resource =
                            rewrite_resource(b.entry[k].resource, by_fullurl_, by_typeid_str_)]
                    ELSE b.entry[k]]]

unknown_bundle(b, by_fullurl_, by_typeid_str_) ==
    unknown_of(b.who, by_fullurl_, by_typeid_str_)
    \cup UNION {IF b.entry[k].has_resource
                THEN unknown_resource(b.entry[k].resource, by_fullurl_, by_typeid_str_)
                ELSE {} : k \in 1..Len(b.entry)}


\* ------------------------------------------------------------- input values
S_Patient == <<"P","a","t","i","e","n","t">>
S_id == <<"1","-","2","-","3">>
S_hyphen_id == <<"-","1","-","2","-","3">>
S_stale == <<"s","t","a","l","e">>

\* "Patient/ 1 2 3"
R_spaces == S_Patient \o <<"/"," ","1"," ","2"," ","3">>
\* "http://h/b/Patient/1-2-3"
R_absolute == <<"h","t","t","p",":","/","/","h","/","b","/">> \o S_Patient \o <<"/">> \o S_id
\* "Patient/9"
R_unknown == S_Patient \o <<"/","9">>
\* "urn:uuid:x " (trailing space)
R_urn == URN_PREFIX \o <<"x"," ">>
\* "#a'" (trailing quote)
R_local == <<"#","a","'">>
\* "urn:uuid:x " inside double quotes; the space is inside the quotes
R_quoted == <<"\"">> \o R_urn \o <<"\"">>
\* "http://loinc.org", a coding-system URL
V_system == <<"h","t","t","p",":","/","/","l","o","i","n","c",".","o","r","g">>
\* "Patient/1-2-3" under a key that is not "reference"
V_reflike == S_Patient \o <<"/">> \o S_id

\* a record (entry.resource)
Resource(rtype, id, identifier, subject, system) ==
    [resourceType |-> rtype, id |-> id, identifier |-> identifier,
     subject |-> subject, system |-> system]

\* what e.get("resource", {}) returns for an entry without a record
EmptyResource == Resource(Absent, Absent, IdAbsent, Absent, Absent)

Entry(fullUrl, stash, has_resource, resource) ==
    [fullUrl |-> fullUrl, generated_uuid |-> stash,
     has_resource |-> has_resource, resource |-> resource]

OtherIdent == Ident(V_system, S_id)

\* entries that other entries can point at: every combination of a prior fullUrl
\* and a (resourceType, id) pair, and the same pairs with a leftover
\* "_generated_uuid" field
TargetEntries ==
    { Entry(fu, Absent, TRUE, Resource(Str(S_Patient), id, IdAbsent, Absent, Str(V_system))) :
        fu \in {Absent, Str(R_absolute \o <<" ">>), Str(R_unknown)},
        id \in {Str(S_id), Str(S_hyphen_id), Absent} }
    \cup
    { Entry(Absent, Str(S_stale), TRUE,
            Resource(Str(S_Patient), id, IdAbsent, Absent, Str(V_system))) :
        id \in {Str(S_id), Str(S_hyphen_id), Absent} }

\* entries whose record holds a reference
ReferringEntries ==
    { Entry(Absent, Absent, TRUE, Resource(Str(S_Patient), Absent, IdAbsent, Str(r), Str(V_system))) :
        r \in {R_spaces, R_absolute, R_unknown, R_urn, R_local, R_quoted} }

\* the identifier a record keeps from an earlier run of this program
PriorUrnIdent == Ident(URN_SYSTEM, to_urn(S_stale))

\* entries whose record already has an identifier field, in each shape, and one
\* that also kept the "_generated_uuid" its identifier was made from
IdentifiedEntries ==
    { Entry(Absent, Absent, TRUE, Resource(Str(S_Patient), Absent, idf, Absent, Str(V_system))) :
        idf \in {IdDict(OtherIdent), IdList(<<OtherIdent>>), IdList(<<PriorUrnIdent>>), IdOther} }
    \cup { Entry(Absent, Str(S_stale), TRUE,
                 Resource(Str(S_Patient), Absent, IdList(<<PriorUrnIdent>>), Absent, Str(V_system))) }

\* an entry with a falsy leftover "_generated_uuid", one whose non-reference field
\* looks like a reference, and one without a record
OddEntries ==
    { Entry(Str(R_unknown), Str(<<>>), TRUE,
            Resource(Str(S_Patient), Str(S_id), IdAbsent, Absent, Absent)),
      Entry(Absent, Absent, TRUE,
            Resource(Absent, Str(S_id), IdAbsent, Absent, Str(V_reflike))),
      Entry(Absent, Absent, FALSE, EmptyResource) }

EntryPool == TargetEntries \cup ReferringEntries \cup IdentifiedEntries \cup OddEntries

EntrySeqs == UNION { [1..n -> EntryPool] : n \in 0..MaxEntries }

\* the container: its id, its identifier, a reference-tagged field outside the
\* entries (signature.who.reference), and the entries
Bundle(id, identifier, who, entry) ==
    [id |-> id, identifier |-> identifier, who |-> who, entry |-> entry]

BundleHeads ==
    { <<idf, Absent>> : idf \in {IdAbsent, IdDict(OtherIdent), IdList(<<OtherIdent>>), IdOther} }
    \cup { <<IdAbsent, Str(r)>> : r \in {R_unknown, R_absolute, R_spaces} }

InputBundles ==
    { Bundle(Str(S_id), h[1], h[2], es) : h \in BundleHeads, es \in EntrySeqs }

\* ------------------------------------------------------------- state
VARIABLES
    bundle,          \* the document, mutated in place
    input,           \* the document as it was given
    pc,              \* position in transform_bundle
    idx,             \* the entry the running loop is at (1-based)
    uuid_count,      \* calls of gen_uuid so far
    assigned,        \* new_uuid of each iteration of collect_uuid_map
    by_fullurl, by_type_id, by_typeid_str,
    unknown_refs,
    warned,          \* the references listed in the warning on stderr
    aug_input,       \* add_identifier alone: the record first given,
    aug_urn,         \*   the urn_value of every call,
    aug_resource,    \*   the record as it is now,
    aug_first,       \*   the record as the first call left it,
    aug_calls        \*   and the calls made

main_vars == <<bundle, input, pc, idx, uuid_count, assigned,
               by_fullurl, by_type_id, by_typeid_str, unknown_refs, warned>>
aug_vars == <<aug_input, aug_urn, aug_resource, aug_first, aug_calls>>
vars == <<main_vars, aug_vars>>

Init ==
    /\ bundle \in InputBundles
    /\ input = bundle
    /\ pc = "start"
    /\ idx = 1
    /\ uuid_count = 0
    /\ assigned = <<>>
    /\ by_fullurl = EmptyMap
    /\ by_type_id = EmptyMap
    /\ by_typeid_str = EmptyMap
    /\ unknown_refs = {}
    /\ warned = {}
    /\ aug_input = EmptyResource
    /\ aug_urn = <<>>
    /\ aug_resource = EmptyResource
    /\ aug_first = EmptyResource
    /\ aug_calls = 0

NumEntries == Len(bundle.entry)

\* a Python value that is truthy: a non-empty string
Truthy(v) == v.t = "str" /\ v.s # <<>>

\* transform_bundle step 0: new id and identifier for the Bundle itself
bundle_identifier(existing, bund_ident) ==
    IF existing.t # "absent"
    THEN IF existing.t = "dict"
         THEN IdList(<<existing.v[1], bund_ident>>)
         ELSE IF existing.t = "list"
              THEN IdList(Append(existing.v, bund_ident))
              ELSE IdList(<<bund_ident>>)
    ELSE IdDict(bund_ident)

AssignBundle ==
    /\ pc = "start"
    /\ LET bundle_uuid == gen_uuid(uuid_count + 1)
           bund_ident  == Ident(URN_SYSTEM, to_urn(bundle_uuid))
       IN  bundle' = [bundle EXCEPT
                        !.id = Str(bundle_uuid),
                        !.identifier = bundle_identifier(bundle.identifier, bund_ident)]
    /\ uuid_count' = uuid_count + 1
    /\ idx' = 1
    /\ pc' = IF NumEntries = 0 THEN "final" ELSE "collect"
    /\ UNCHANGED <<input, assigned, by_fullurl, by_type_id, by_typeid_str,
                   unknown_refs, warned, aug_vars>>

\* e.setdefault("_generated_uuid", new_uuid)
setdefault_generated_uuid(e, new_uuid) ==
    IF e.generated_uuid.t = "absent"
    THEN [e EXCEPT !.generated_uuid = Str(new_uuid)]
    ELSE e

\* the flattened index, were the first entry of a key to win (setdefault)
put_typeid_str_first_wins(m, rtype, old_id, urn) ==
    IF (rtype \o <<"/">> \o old_id) \in DOMAIN m THEN m
    ELSE Put(m, rtype \o <<"/">> \o old_id, urn)

\* by_typeid_str[f"{rtype}/{old_id}"] = urn
put_typeid_str(m, rtype, old_id, urn) == Put(m, rtype \o <<"/">> \o old_id, urn)

\* collect_uuid_map, were it to rewrite the references of each record as it goes,
\* with the indices built so far
Collect_rewriting_as_it_goes ==
    /\ pc = "collect"
    /\ idx <= NumEntries
    /\ LET e        == bundle.entry[idx]
           res      == IF e.has_resource THEN e.resource ELSE EmptyResource
           rtype    == res.resourceType
           old_id   == res.id
           new_uuid == gen_uuid(uuid_count + 1)
           urn      == to_urn(new_uuid)
           e1       == setdefault_generated_uuid(e, new_uuid)
       IN  /\ by_fullurl' = IF e.fullUrl.t = "str"
                            THEN Put(by_fullurl, Strip(e.fullUrl.s, Whitespace), urn)
                            ELSE by_fullurl
           /\ IF Truthy(rtype) /\ old_id.t = "str"
              THEN /\ by_type_id' = Put(by_type_id, <<rtype.s, old_id.s>>, urn)
                   /\ by_typeid_str' = put_typeid_str(by_typeid_str, rtype.s, old_id.s, urn)
              ELSE UNCHANGED <<by_type_id, by_typeid_str>>
           /\ bundle' = [bundle EXCEPT !.entry[idx] =
                           [e1 EXCEPT !.resource =
                              rewrite_resource(e1.resource, by_fullurl', by_typeid_str')]]
           /\ assigned' = Append(assigned, new_uuid)
    /\ uuid_count' = uuid_count + 1
    /\ IF idx = NumEntries
       THEN pc' = "rewrite" /\ idx' = 1
       ELSE pc' = pc /\ idx' = idx + 1
    /\ UNCHANGED <<input, unknown_refs, warned, aug_vars>>

\* one iteration of the loop of collect_uuid_map
Collect ==
    /\ pc = "collect"
    /\ idx <= NumEntries
    /\ LET e        == bundle.entry[idx]
           res      == IF e.has_resource THEN e.resource ELSE EmptyResource
           rtype    == res.resourceType
           old_id   == res.id
           new_uuid == gen_uuid(uuid_count + 1)
           urn      == to_urn(new_uuid)
       IN  /\ by_fullurl' = IF e.fullUrl.t = "str"
                            THEN Put(by_fullurl, Strip(e.fullUrl.s, Whitespace), urn)
                            ELSE by_fullurl
           /\ IF Truthy(rtype) /\ old_id.t = "str"
              THEN /\ by_type_id' = Put(by_type_id, <<rtype.s, old_id.s>>, urn)
                   /\ by_typeid_str' = put_typeid_str(by_typeid_str, rtype.s, old_id.s, urn)
              ELSE UNCHANGED <<by_type_id, by_typeid_str>>
           /\ bundle' = [bundle EXCEPT !.entry[idx] = setdefault_generated_uuid(e, new_uuid)]
           /\ assigned' = Append(assigned, new_uuid)
    /\ uuid_count' = uuid_count + 1
    /\ IF idx = NumEntries
       THEN pc' = "rewrite" /\ idx' = 1
       ELSE pc' = pc /\ idx' = idx + 1
    /\ UNCHANGED <<input, unknown_refs, warned, aug_vars>>

\* the indices handed to rewrite_references
lookup_fullurl == by_fullurl
lookup_typeid_str == by_typeid_str

\* one iteration of the loop of transform_bundle step 2
RewriteEntry ==
    /\ pc = "rewrite"
    /\ idx <= NumEntries
    /\ LET e        == bundle.entry[idx]
           res      == IF e.has_resource THEN e.resource ELSE EmptyResource
           fresh    == ~Truthy(e.generated_uuid)
           new_uuid == IF fresh THEN gen_uuid(uuid_count + 1) ELSE e.generated_uuid.s
           urn      == to_urn(new_uuid)
           res1     == add_identifier([res EXCEPT !.id = Str(new_uuid)], urn)
           res2     == rewrite_resource(res1, lookup_fullurl, lookup_typeid_str)
       IN  /\ bundle' = [bundle EXCEPT !.entry[idx] =
                           Entry(Str(urn), Absent, e.has_resource,
                                 IF e.has_resource THEN res2 ELSE e.resource)]
           /\ unknown_refs' = unknown_refs
                                \cup unknown_resource(res1, lookup_fullurl, lookup_typeid_str)
           /\ uuid_count' = IF fresh THEN uuid_count + 1 ELSE uuid_count
    /\ IF idx = NumEntries
       THEN pc' = "final" /\ idx' = 1
       ELSE pc' = pc /\ idx' = idx + 1
    /\ UNCHANGED <<input, assigned, by_fullurl, by_type_id, by_typeid_str, warned, aug_vars>>

\* transform_bundle step 3 and the warning
FinalRewrite ==
    /\ pc = "final"
    /\ bundle' = rewrite_bundle(bundle, lookup_fullurl, lookup_typeid_str)
    /\ unknown_refs' = unknown_refs \cup unknown_bundle(bundle, lookup_fullurl, lookup_typeid_str)
    /\ warned' = unknown_refs'
    /\ pc' = "done"
    /\ UNCHANGED <<input, idx, uuid_count, assigned, by_fullurl, by_type_id, by_typeid_str,
                   aug_vars>>

Next == AssignBundle \/ Collect \/ RewriteEntry \/ FinalRewrite

Spec == Init /\ [][Next]_vars

\* ------------------------------------------------------------- add_identifier alone
U1 == to_urn(gen_uuid(1))
U2 == to_urn(gen_uuid(2))

AugElems == {Ident(URN_SYSTEM, U1), Ident(URN_SYSTEM, U2), Ident(V_system, U1)}

AugIdentifiers ==
    {IdAbsent, IdOther}
    \cup {IdDict(d) : d \in AugElems}
    \cup {IdList(l) : l \in UNION { [1..n -> AugElems] : n \in 0..MaxIdentLen }}

InitAug ==
    /\ bundle = Bundle(Str(S_id), IdAbsent, Absent, <<>>)
    /\ input = bundle
    /\ pc = "add_identifier"
    /\ idx = 1
    /\ uuid_count = 0
    /\ assigned = <<>>
    /\ by_fullurl = EmptyMap
    /\ by_type_id = EmptyMap
    /\ by_typeid_str = EmptyMap
    /\ unknown_refs = {}
    /\ warned = {}
    /\ aug_input \in {Resource(Str(S_Patient), Str(S_id), idf, Absent, Absent) :
                        idf \in AugIdentifiers}
    /\ aug_urn \in {U1, U2}
    /\ aug_resource = aug_input
    /\ aug_first = aug_input
    /\ aug_calls = 0

\* add_identifier(resource, urn_value), called again on the record it left
AddIdentifierCall ==
    /\ pc = "add_identifier"
    /\ aug_calls < MaxAugCalls
    /\ aug_resource' = add_identifier(aug_resource, aug_urn)
    /\ aug_first' = IF aug_calls = 0 THEN aug_resource' ELSE aug_first
    /\ aug_calls' = aug_calls + 1
    /\ UNCHANGED <<main_vars, aug_input, aug_urn>>

NextAug == AddIdentifierCall

SpecAug == InitAug /\ [][NextAug]_vars


\* ------------------------------------------------------------- vocabulary of the claims
Done == pc = "done"

\* where a reference-tagged value can live: 0 is the container's own field,
\* k >= 1 the record of entry k
RefPositions == 0..NumEntries

InRefAt(p) ==
    IF p = 0 THEN input.who
    ELSE IF input.entry[p].has_resource THEN input.entry[p].resource.subject ELSE Absent

OutRefAt(p) ==
    IF p = 0 THEN bundle.who
    ELSE IF bundle.entry[p].has_resource THEN bundle.entry[p].resource.subject ELSE Absent

\* entry j of the input holds a record with this resourceType and id
InputRecordIs(j, kind, id) ==
    /\ input.entry[j].has_resource
    /\ input.entry[j].resource.resourceType = Str(kind)
    /\ input.entry[j].resource.id = Str(id)

\* the stripped prior fullUrl values of the input entries
InputFullUrls ==
    { Strip(input.entry[j].fullUrl.s, Whitespace) :
        j \in { k \in 1..NumEntries : input.entry[k].fullUrl.t = "str" } }

\* (kind, id) pairs are unique, fullUrls are unique, and a fullUrl that reads as a
\* reference names the record of its own entry
WellFormed(b) ==
    /\ \A j, k \in 1..Len(b.entry) :
         /\ j # k
         /\ b.entry[j].has_resource /\ b.entry[k].has_resource
         /\ b.entry[j].resource.id.t = "str"
         => \/ b.entry[j].resource.id # b.entry[k].resource.id
            \/ b.entry[j].resource.resourceType # b.entry[k].resource.resourceType
    /\ \A j, k \in 1..Len(b.entry) :
         j # k /\ b.entry[j].fullUrl.t = "str" => b.entry[j].fullUrl # b.entry[k].fullUrl
    /\ \A j \in 1..Len(b.entry) :
         LET m == REF_RE(sanitize_ref_string(b.entry[j].fullUrl.s))
         IN  b.entry[j].fullUrl.t = "str" /\ m.ok
             => /\ b.entry[j].has_resource
                /\ b.entry[j].resource.resourceType = Str(m.kind)
                /\ b.entry[j].resource.id = Str(m.id)

\* runs on containers that keep the data model's uniqueness rules
InitWellFormed == Init /\ WellFormed(bundle)
SpecWellFormed == InitWellFormed /\ [][Next]_vars

\* ------------------------------------------------------------- C1
\* C1 (reference closure): after transform_bundle, every reference whose sanitized
\* form is Kind/id or http(s)://host/base/Kind/id, with a record of that
\* resourceType and id in the input, equals "urn:uuid:" + the id that record
\* carries in the output, which is also that entry's output fullUrl.
C1_ReferenceClosure ==
    Done =>
      \A p \in RefPositions : \A j \in 1..NumEntries :
        LET m == REF_RE(sanitize_ref_string(InRefAt(p).s))
        IN  InRefAt(p).t = "str" /\ m.ok /\ InputRecordIs(j, m.kind, m.id)
            => /\ OutRefAt(p) = Str(to_urn(bundle.entry[j].resource.id.s))
               /\ OutRefAt(p) = bundle.entry[j].fullUrl

\* ------------------------------------------------------------- C2
\* C2 (pass-through invariance): a reference whose raw value begins with
\* "urn:uuid:" or "#" is, after transform_bundle, equal to the raw value.
C2_PassThrough ==
    Done =>
      \A p \in RefPositions :
        /\ InRefAt(p).t = "str"
        /\ StartsWith(InRefAt(p).s, URN_PREFIX) \/ StartsWith(InRefAt(p).s, <<"#">>)
        => OutRefAt(p) = InRefAt(p)

\* ------------------------------------------------------------- C3
\* the raw value reads Kind/id and no record of the input has that pair
UnknownKindId(p) ==
    /\ InRefAt(p).t = "str"
    /\ RefReExact(InRefAt(p).s).ok
    /\ Len(Split(InRefAt(p).s, "/")) = 2
    /\ \A j \in 1..NumEntries :
         ~InputRecordIs(j, RefReExact(InRefAt(p).s).kind, RefReExact(InRefAt(p).s).id)

LeftAndReported(p) ==
    /\ OutRefAt(p) = InRefAt(p)
    /\ InRefAt(p).s \in unknown_refs
    /\ InRefAt(p).s \in warned

\* C3 as stated (unresolved accounting): a reference Kind/unknown-id that no record
\* matches is left as it was and is in the reported unresolved set.
C3_UnresolvedAccounting_Original ==
    Done => \A p \in RefPositions : UnknownKindId(p) => LeftAndReported(p)

\* C3 amended: a reference Kind/unknown-id that no record matches, and that is
\* not the stripped prior fullUrl of any entry, is left as it was and is in the
\* reported unresolved set.
C3_UnresolvedAccounting ==
    Done =>
      \A p \in RefPositions :
        UnknownKindId(p) /\ InRefAt(p).s \notin InputFullUrls => LeftAndReported(p)

C3_Witness ==
    /\ Done
    /\ \E p \in RefPositions :
         UnknownKindId(p) /\ InRefAt(p).s \notin InputFullUrls /\ LeftAndReported(p)

\* ------------------------------------------------------------- C4
\* C4 (non-reference preservation): after transform_bundle every field that is
\* not a reference, the container's id or identifier, an entry's fullUrl or a
\* record's top-level id or identifier is present with its input value, and no
\* such field is added or removed.
C4_NonReferencePreserved ==
    Done =>
      /\ Len(bundle.entry) = Len(input.entry)
      /\ (bundle.who.t = "absent") = (input.who.t = "absent")
      /\ \A k \in 1..NumEntries :
           /\ bundle.entry[k].generated_uuid = input.entry[k].generated_uuid
           /\ bundle.entry[k].has_resource = input.entry[k].has_resource
           /\ bundle.entry[k].resource.resourceType = input.entry[k].resource.resourceType
           /\ bundle.entry[k].resource.system = input.entry[k].resource.system
           /\ (bundle.entry[k].resource.subject.t = "absent")
                = (input.entry[k].resource.subject.t = "absent")

\* ------------------------------------------------------------- C5
\* C5 (identity uniqueness): after transform_bundle the ids of the records of
\* distinct entries, and the entries' fullUrl values, are pairwise distinct, and
\* distinct from the container's new id.
C5_IdentityUnique ==
    Done =>
      /\ \A j, k \in 1..NumEntries :
           j # k => bundle.entry[j].fullUrl # bundle.entry[k].fullUrl
      /\ \A j, k \in 1..NumEntries :
           j # k /\ bundle.entry[j].has_resource /\ bundle.entry[k].has_resource
           => bundle.entry[j].resource.id # bundle.entry[k].resource.id
      /\ \A j \in 1..NumEntries :
           bundle.entry[j].has_resource => bundle.entry[j].resource.id # bundle.id


\* ------------------------------------------------------------- C6
\* C6 (entry locator invariant): after transform_bundle, for every entry that
\* holds a record, fullUrl is "urn:uuid:" + the record's id, and the record's
\* identifier is a list with an element of system "urn:ietf:rfc:3986" whose value
\* is that fullUrl.
C6_EntryLocator ==
    Done =>
      \A k \in 1..NumEntries :
        bundle.entry[k].has_resource =>
          /\ bundle.entry[k].resource.id.t = "str"
          /\ bundle.entry[k].fullUrl = Str(to_urn(bundle.entry[k].resource.id.s))
          /\ bundle.entry[k].resource.identifier.t = "list"
          /\ \E n \in 1..Len(bundle.entry[k].resource.identifier.v) :
               /\ bundle.entry[k].resource.identifier.v[n].system = URN_SYSTEM
               /\ Str(bundle.entry[k].resource.identifier.v[n].value) = bundle.entry[k].fullUrl

C6_Witness ==
    /\ Done
    /\ \E k \in 1..NumEntries :
         /\ input.entry[k].has_resource
         /\ input.entry[k].resource.identifier = IdList(<<PriorUrnIdent>>)
         /\ input.entry[k].generated_uuid.t = "absent"
         /\ Len(bundle.entry[k].resource.identifier.v) = 2
         /\ Str(bundle.entry[k].resource.identifier.v[2].value) = bundle.entry[k].fullUrl

\* ------------------------------------------------------------- C7
\* the scenario: entry a holds the record Patient/1-2-3, the record of another
\* entry b holds the reference "Patient/ 1 2 3"
WhitespaceScenario(a, b) ==
    /\ a # b
    /\ InputRecordIs(a, S_Patient, S_id)
    /\ InRefAt(b) = Str(R_spaces)

\* C7 as stated (whitespace repair scenario): the reference "Patient/ 1 2 3" is
\* sanitized into a match of the record Patient/1-2-3, so after transform_bundle it
\* equals "urn:uuid:" + that record's new id, and the unresolved set is empty.
C7_WhitespaceRepair_Original ==
    Done =>
      \A a, b \in 1..NumEntries :
        WhitespaceScenario(a, b)
        => /\ OutRefAt(b) = Str(to_urn(bundle.entry[a].resource.id.s))
           /\ unknown_refs = {}

\* C7 amended: sanitization turns every run of spaces of "Patient/ 1 2 3", the one
\* after the slash included, into a hyphen, which gives "Patient/-1-2-3" and not
\* the record Patient/1-2-3; unless a Patient record with id "-1-2-3" exists, the
\* reference is left as it was and its raw value is in the unresolved set.
C7_WhitespaceRepair ==
    /\ sanitize_ref_string(R_spaces) = S_Patient \o <<"/">> \o S_hyphen_id
    /\ Done =>
         \A a, b \in 1..NumEntries :
           /\ WhitespaceScenario(a, b)
           /\ \A j \in 1..NumEntries : ~InputRecordIs(j, S_Patient, S_hyphen_id)
           /\ sanitize_ref_string(R_spaces) \notin InputFullUrls
           => /\ OutRefAt(b) = Str(R_spaces)
              /\ R_spaces \in unknown_refs

C7_Witness ==
    /\ Done
    /\ \E a, b \in 1..NumEntries :
         /\ WhitespaceScenario(a, b)
         /\ \A j \in 1..NumEntries : ~InputRecordIs(j, S_Patient, S_hyphen_id)
         /\ OutRefAt(b) = Str(R_spaces)
         /\ R_spaces \in unknown_refs

\* ------------------------------------------------------------- C9
RefsOf(b) ==
    <<b.who, [k \in 1..Len(b.entry) |-> b.entry[k].resource.subject]>>

\* entry k of the input is registered under (resourceType, id)
InputIndexed(k) ==
    /\ input.entry[k].has_resource
    /\ Truthy(input.entry[k].resource.resourceType)
    /\ input.entry[k].resource.id.t = "str"

FlatKey(k) ==
    input.entry[k].resource.resourceType.s \o <<"/">> \o input.entry[k].resource.id.s

IndicesComplete ==
    /\ Len(assigned) = NumEntries
    /\ \A k \in 1..NumEntries :
         /\ input.entry[k].fullUrl.t = "str"
            => Strip(input.entry[k].fullUrl.s, Whitespace) \in DOMAIN by_fullurl
         /\ InputIndexed(k)
            => /\ FlatKey(k) \in DOMAIN by_typeid_str
               /\ <<input.entry[k].resource.resourceType.s, input.entry[k].resource.id.s>>
                    \in DOMAIN by_type_id

\* the reference at entry i names the record of entry j, the last entry of that
\* (kind, id), and is not a prior fullUrl
NamesRecord(i, j) ==
    LET m == REF_RE(sanitize_ref_string(InRefAt(i).s))
    IN  /\ i # j
        /\ InRefAt(i).t = "str"
        /\ m.ok
        /\ InputRecordIs(j, m.kind, m.id)
        /\ \A k \in (j + 1)..NumEntries : ~InputRecordIs(k, m.kind, m.id)
        /\ sanitize_ref_string(InRefAt(i).s) \notin InputFullUrls

AfterCollect == pc \in {"rewrite", "final", "done"}

IndicesAgree(k) ==
    LET fu  == Strip(input.entry[k].fullUrl.s, Whitespace)
        rt  == input.entry[k].resource.resourceType.s
        id  == input.entry[k].resource.id.s
        urn == to_urn(assigned[k])
    IN  /\ fu \in DOMAIN by_fullurl
        /\ <<rt, id>> \in DOMAIN by_type_id
        /\ FlatKey(k) \in DOMAIN by_typeid_str
        /\ by_fullurl[fu] = urn
        /\ by_type_id[<<rt, id>>] = urn
        /\ by_typeid_str[FlatKey(k)] = urn

\* no later entry has the stripped fullUrl or the flattened key of entry k
LastOfItsKeys(k) ==
    \A j \in (k + 1)..NumEntries :
      /\ input.entry[j].fullUrl.t = "str"
         => Strip(input.entry[j].fullUrl.s, Whitespace)
              # Strip(input.entry[k].fullUrl.s, Whitespace)
      /\ InputIndexed(j) => FlatKey(j) # FlatKey(k)

\* C10 as stated (index agreement): after collect_uuid_map, for every entry with a
\* string fullUrl and a record with resourceType and string id, the three indices
\* hold "urn:uuid:" + the identifier generated for that entry.
C10_IndexAgreement_Original ==
    AfterCollect =>
      \A k \in 1..NumEntries :
        input.entry[k].fullUrl.t = "str" /\ InputIndexed(k) => IndicesAgree(k)

\* C10 amended: the same, for every such entry that no later entry shares its
\* stripped fullUrl or its flattened "resourceType/id" with.
C10_IndexAgreement ==
    AfterCollect =>
      \A k \in 1..NumEntries :
        input.entry[k].fullUrl.t = "str" /\ InputIndexed(k) /\ LastOfItsKeys(k)
        => IndicesAgree(k)

C10_Witness ==
    /\ AfterCollect
    /\ \E j, k \in 1..NumEntries :
         /\ j < k
         /\ input.entry[j].fullUrl.t = "str" /\ InputIndexed(j)
         /\ input.entry[k].fullUrl.t = "str" /\ InputIndexed(k)
         /\ FlatKey(j) = FlatKey(k)
         /\ IndicesAgree(k)


\* ------------------------------------------------------------- C8
\* the elements of an identifier field that carry this urn under URN_SYSTEM
UrnCount(identifier, urn_value) ==
    Cardinality({ n \in 1..Len(identifier.v) :
                    identifier.v[n].system = URN_SYSTEM /\ identifier.v[n].value = urn_value })

\* C8 (idempotent identifier augmentation): whatever the identifier field was, a
\* second call of add_identifier with the same value leaves the record as the first
\* call left it: the same list, with no further element of that value.
C8_AddIdentifierIdempotent ==
    aug_calls >= 2 =>
      /\ aug_resource = aug_first
      /\ aug_resource.identifier.t = "list"
      /\ UrnCount(aug_resource.identifier, aug_urn) = UrnCount(aug_first.identifier, aug_urn)
      /\ UrnCount(aug_input.identifier, aug_urn) = 0
         => UrnCount(aug_resource.identifier, aug_urn) = 1

C8_Witness ==
    /\ aug_calls = 2
    /\ aug_input.identifier.t = "list"
    /\ UrnCount(aug_input.identifier, aug_urn) = 0
    /\ Len(aug_resource.identifier.v) = Len(aug_input.identifier.v) + 1


\* ------------------------------------------------------------- C11
\* rewrite_references applied once to a reference-tagged value, with the indices
\* as they are
RewrittenOnce(v) == rewrite_value(v, by_fullurl, by_typeid_str)

\* C11 (rewriter idempotence): with the indices fixed, a second application of
\* rewrite_references changes no value; so after transform_bundle every reference
\* inside an entry's record is what the per-record pass made of the input value,
\* and the unresolved set holds only what one pass over the input values adds.
C11_RewriterIdempotent ==
    Done =>
      /\ \A p \in RefPositions :
           RewrittenOnce(RewrittenOnce(InRefAt(p))) = RewrittenOnce(InRefAt(p))
      /\ \A k \in 1..NumEntries : OutRefAt(k) = RewrittenOnce(InRefAt(k))
      /\ unknown_refs \subseteq
           UNION { unknown_of(InRefAt(p), by_fullurl, by_typeid_str) : p \in RefPositions }

====
